---- MODULE Spec2Model ----
(***************************************************************************)
(* Session recording pipeline of reconai: core/session_manager.py          *)
(* (SessionManager) driven by ui/components/sessions.py (Processor).       *)
(*                                                                         *)
(* Floats are modelled as tagged values: finite numbers, NaN, +Inf, -Inf   *)
(* and Python's None.  Time is counted in clock quanta (elapsed_time()     *)
(* rounds to 0.01 s); sampling_rate is expressed in the same quanta.       *)
(***************************************************************************)
EXTENDS Integers, Sequences, FiniteSets, TLC

\* ------------------------------------------------------------------ bounds
MaxFrames == 3      \* frame callbacks delivered
MaxFaults == 1      \* failures the environment injects in one run
MaxCloses == 2      \* close_session calls
MaxProbes == 1      \* calls made from outside the frame loop

\* ------------------------------------------------------------------ floats
Num(n) == [k |-> "num", v |-> n]
NaN == [k |-> "nan", v |-> 0]
PosInf == [k |-> "inf", v |-> 1]
NegInf == [k |-> "inf", v |-> -1]
None == [k |-> "none", v |-> 0]

IsNaN(x) == x.k = "nan"

\* a <= b on non-NaN floats
FLe(a, b) ==
    IF a.k = "inf" THEN (a.v = -1 \/ (b.k = "inf" /\ b.v = 1))
    ELSE IF b.k = "inf" THEN b.v = 1
    ELSE a.v <= b.v

\* a - b on non-NaN floats (IEEE: inf - inf of the same sign is NaN)
FSub(a, b) ==
    IF a.k = "inf" /\ b.k = "inf" THEN (IF a.v = b.v THEN NaN ELSE a)
    ELSE IF a.k = "inf" THEN a
    ELSE IF b.k = "inf" THEN [k |-> "inf", v |-> 0 - b.v]
    ELSE Num(a.v - b.v)

Range(s) == {s[i] : i \in 1..Len(s)}

\* Python max()/min() over a non-empty list without NaN
FMax(s) == CHOOSE x \in Range(s) : \A y \in Range(s) : FLe(y, x)
FMin(s) == CHOOSE x \in Range(s) : \A y \in Range(s) : FLe(x, y)

\* ------------------------------------------------------------------ names
Variants == {"raw", "mediapipe", "legacy"}

\* keys of the joints dict used in the model: the angles and symmetries, and one
\* coordinate
Keys == {"angle_arm_r", "angle_arm_l", "angle_leg_r", "angle_leg_l",
         "symmetry_angle_arm", "symmetry_angle_leg",
         "symmetry_shoulder_y", "symmetry_elbow_y", "symmetry_knee_y", "knee_y_r"}

\* the characters of each key
Spelling ==
    "angle_arm_r" :> <<"a", "n", "g", "l", "e", "_", "a", "r", "m", "_", "r">>
    @@ "angle_arm_l" :> <<"a", "n", "g", "l", "e", "_", "a", "r", "m", "_", "l">>
    @@ "angle_leg_r" :> <<"a", "n", "g", "l", "e", "_", "l", "e", "g", "_", "r">>
    @@ "angle_leg_l" :> <<"a", "n", "g", "l", "e", "_", "l", "e", "g", "_", "l">>
    @@ "symmetry_angle_arm" :> <<"s", "y", "m", "m", "e", "t", "r", "y", "_", "a", "n", "g", "l", "e", "_", "a", "r", "m">>
    @@ "symmetry_angle_leg" :> <<"s", "y", "m", "m", "e", "t", "r", "y", "_", "a", "n", "g", "l", "e", "_", "l", "e", "g">>
    @@ "symmetry_shoulder_y" :> <<"s", "y", "m", "m", "e", "t", "r", "y", "_", "s", "h", "o", "u", "l", "d", "e", "r", "_", "y">>
    @@ "symmetry_elbow_y" :> <<"s", "y", "m", "m", "e", "t", "r", "y", "_", "e", "l", "b", "o", "w", "_", "y">>
    @@ "symmetry_knee_y" :> <<"s", "y", "m", "m", "e", "t", "r", "y", "_", "k", "n", "e", "e", "_", "y">>
    @@ "knee_y_r" :> <<"k", "n", "e", "e", "_", "y", "_", "r">>

\* Python's  sub in s
Contains(sub, s) ==
    \E i \in 1..(Len(s) - Len(sub) + 1) : SubSeq(s, i, i + Len(sub) - 1) = sub

AngleKeys == {key \in Keys : Contains(<<"a", "n", "g", "l", "e">>, Spelling[key])}
SymmetryKeys == {key \in Keys : Contains(<<"s", "y", "m", "m", "e", "t", "r", "y">>, Spelling[key])}
UnderscoreYKeys == {key \in Keys : Contains(<<"_", "y">>, Spelling[key])}

\* "angle" in key / "symmetry" in key / "_y" in key
HasAngle(key) == key \in AngleKeys
HasSymmetry(key) == key \in SymmetryKeys
HasUnderscoreY(key) == key \in UnderscoreYKeys

\* a joints dict: the given entries, None for the other keys
JointsWith(entries) ==
    [key \in Keys |-> IF key \in DOMAIN entries THEN entries[key] ELSE None]

\* joints dicts the frame callbacks deliver
JointSamples ==
    { JointsWith([angle_arm_r |-> Num(10), symmetry_knee_y |-> NaN, knee_y_r |-> Num(7)]),
      JointsWith([angle_arm_r |-> Num(20), angle_arm_l |-> Num(20),
                  symmetry_angle_arm |-> Num(0), symmetry_knee_y |-> PosInf,
                  knee_y_r |-> Num(7)]),
      JointsWith([angle_arm_r |-> Num(15), angle_arm_l |-> NegInf,
                  symmetry_angle_arm |-> PosInf, symmetry_knee_y |-> Num(5),
                  knee_y_r |-> Num(9)]) }

\* _extract_joint_data returned (None, {}) or no pose was detected
NoJoints == [key \in Keys |-> None]

\* sampling_rate values (0 = every frame; the UI slider gives a positive interval)
SamplingRates == {0, 2}

NoId == 0
NewId == 1
NoFrame == -1
Stats == {"max", "min", "range"}
NoPair == <<"", "">>

\* ------------------------------------------------------------------ geometry
\* IEEE sums and products of floats that may be NaN or infinite
FAdd(a, b) ==
    IF IsNaN(a) \/ IsNaN(b) THEN NaN
    ELSE IF a.k = "inf" /\ b.k = "inf" THEN (IF a.v = b.v THEN a ELSE NaN)
    ELSE IF a.k = "inf" THEN a
    ELSE IF b.k = "inf" THEN b
    ELSE Num(a.v + b.v)

Sign(n) == IF n > 0 THEN 1 ELSE IF n < 0 THEN -1 ELSE 0

FMul(a, b) ==
    IF IsNaN(a) \/ IsNaN(b) THEN NaN
    ELSE IF a.k = "inf" \/ b.k = "inf"
    THEN (IF Sign(a.v) * Sign(b.v) = 0 THEN NaN
          ELSE [k |-> "inf", v |-> Sign(a.v) * Sign(b.v)])
    ELSE Num(a.v * b.v)

\* a - b where the operands may be NaN
FMinus(a, b) == IF IsNaN(a) \/ IsNaN(b) THEN NaN ELSE FSub(a, b)

\* abs()
FAbs(a) ==
    IF a.k = "inf" THEN PosInf
    ELSE IF a.k = "num" /\ a.v < 0 THEN Num(0 - a.v)
    ELSE a

\* a point is a pair <<x, y>> of floats; NoPoint stands for a None argument
NoPoint == <<>>

Vec(p, q) == <<FMinus(p[1], q[1]), FMinus(p[2], q[2])>>
Dot(u, v) == FAdd(FMul(u[1], v[1]), FMul(u[2], v[2]))
Cross(u, v) == FMinus(FMul(u[1], v[2]), FMul(u[2], v[1]))

\* np.linalg.norm(u) squared
NormSq(u) == Dot(u, u)

HasNaN(p) == p # NoPoint /\ (IsNaN(p[1]) \/ IsNaN(p[2]))

\* degrees(arccos(dot / (norm_u * norm_v))) for two non-zero vectors of integers
\* whose directions are multiples of 45 degrees apart
ArcCosDegrees(dot, cross) ==
    CASE cross = 0 /\ dot > 0 -> 0
      [] cross = 0 /\ dot < 0 -> 180
      [] cross # 0 /\ dot = 0 -> 90
      [] cross # 0 /\ dot > 0 /\ (dot = cross \/ dot = 0 - cross) -> 45
      [] cross # 0 /\ dot < 0 /\ (dot = cross \/ dot = 0 - cross) -> 135

\* np.degrees(np.arccos(np.clip(cosine_angle, -1.0, 1.0))): a quotient with a NaN
\* or two infinities is NaN, a finite dot over an infinite norm is 0
AngleBetween(ba, bc) ==
    LET dot == Dot(ba, bc)
        norms == FMul(NormSq(ba), NormSq(bc))
    IN  IF IsNaN(dot) \/ IsNaN(norms) \/ dot.k = "inf" THEN NaN
        ELSE IF norms.k = "inf" THEN Num(90)
        ELSE Num(ArcCosDegrees(dot.v, Cross(ba, bc).v))

\* a safe_round that takes every falsy value for a missing one
SafeRoundFalsy(value) ==
    IF value = None \/ value = Num(0) THEN None
    ELSE IF IsNaN(value) \/ value.k = "inf" THEN None
    ELSE value

\* safe_round(value): the values of the model are whole degrees, which
\* round(float(value), 2) leaves as they are
SafeRound(value) ==
    IF value = None THEN None
    ELSE IF IsNaN(value) \/ value.k = "inf" THEN None
    ELSE value

\* calculate_angle(a, b, c); every exception is caught and gives None
CalculateAngle(a, b, c) ==
    IF a = NoPoint \/ b = NoPoint \/ c = NoPoint THEN None
    ELSE IF HasNaN(a) \/ HasNaN(b) \/ HasNaN(c) THEN None
    ELSE LET ba == Vec(a, b)
             bc == Vec(c, b)
         IN  IF NormSq(ba) = Num(0) \/ NormSq(bc) = Num(0) THEN None
             ELSE SafeRound(FAbs(AngleBetween(ba, bc)))

\* the 16 landmarks _extract_joint_data reads
Required ==
    {"RIGHT_SHOULDER", "RIGHT_ELBOW", "RIGHT_WRIST", "LEFT_SHOULDER", "LEFT_ELBOW",
     "LEFT_WRIST", "RIGHT_HIP", "RIGHT_KNEE", "RIGHT_ANKLE", "LEFT_HIP", "LEFT_KNEE",
     "LEFT_ANKLE", "RIGHT_HEEL", "RIGHT_FOOT_INDEX", "LEFT_HEEL", "LEFT_FOOT_INDEX"}

\* extract_landmarks(results) when no pose was detected
NoLandmarks == [name \in {} |-> <<0, 0>>]

\* (lm[name][0] * w, lm[name][1] * h)
Pixel(lm, name, w, h) == <<Num(lm[name][1] * w), Num(lm[name][2] * h)>>

\* abs(r - l) without its abs
SymmetrySigned(r, l) ==
    IF r = None \/ l = None THEN None ELSE FMinus(r, l)

\* abs(r - l), or None when one of the angles is None (sessions.py 156-163); the
\* positional symmetries (165-167) are never given a None
Symmetry(r, l) ==
    IF r = None \/ l = None THEN None ELSE FAbs(FMinus(r, l))

\* _extract_joint_data(lm, w, h): the joints dict, NoJoints for (None, {}); lm maps
\* the names of the detected landmarks to normalized <<x, y>>
ExtractJointData(lm, w, h) ==
    IF \E name \in Required : name \notin DOMAIN lm THEN NoJoints
    ELSE LET P(name) == Pixel(lm, name, w, h)
             angle_arm_r == CalculateAngle(P("RIGHT_SHOULDER"), P("RIGHT_ELBOW"), P("RIGHT_WRIST"))
             angle_arm_l == CalculateAngle(P("LEFT_SHOULDER"), P("LEFT_ELBOW"), P("LEFT_WRIST"))
             angle_leg_r == CalculateAngle(P("RIGHT_HIP"), P("RIGHT_KNEE"), P("RIGHT_ANKLE"))
             angle_leg_l == CalculateAngle(P("LEFT_HIP"), P("LEFT_KNEE"), P("LEFT_ANKLE"))
         IN  [angle_arm_r |-> angle_arm_r,
              angle_arm_l |-> angle_arm_l,
              angle_leg_r |-> angle_leg_r,
              angle_leg_l |-> angle_leg_l,
              symmetry_angle_arm |-> Symmetry(angle_arm_r, angle_arm_l),
              symmetry_angle_leg |-> Symmetry(angle_leg_r, angle_leg_l),
              symmetry_shoulder_y |-> Symmetry(P("RIGHT_SHOULDER")[2], P("LEFT_SHOULDER")[2]),
              symmetry_elbow_y |-> Symmetry(P("RIGHT_ELBOW")[2], P("LEFT_ELBOW")[2]),
              symmetry_knee_y |-> Symmetry(P("RIGHT_KNEE")[2], P("LEFT_KNEE")[2]),
              knee_y_r |-> P("RIGHT_KNEE")[2]]

\* ------------------------------------------------------------------ state
VARIABLES
    generate,       \* Processor/SessionManager: variants with generate_* = True
    sampling_rate,  \* SessionManager.sampling_rate
    use_ffmpeg,     \* SessionManager.use_ffmpeg
    session_mgr,    \* Processor.session_mgr is not None
    started,        \* Processor.started
    frame_idx,      \* Processor.frame_idx
    paused,         \* st.session_state["paused"]
    sm,             \* the SessionManager object's fields
    db,             \* storage collaborator: session row, movement_data rows, metrics rows
    enc,            \* per variant: the encoder behind the handle and the frames it received
    elapsed,        \* time.time() - start_time, in clock quanta
    nRecv,          \* history: frame callbacks delivered
    nFed,           \* history: callbacks with complete landmarks, unpaused, before any close
    closes,         \* history: close_session calls that returned
    faults,         \* history: failures injected by the environment
    rpc,            \* interleaved runs: where the capture thread is inside recv
    rlocal,         \* interleaved runs: recv's locals (joint_data, sequence_num)
    cpc,            \* interleaved runs: where the UI thread is inside close_and_*
    clocal,         \* interleaved runs: the metric names close_session's loop iterates
    fps_hint,       \* the fps the caller passes to start_session
    pose,           \* the landmarks and joint_data of the last frame, where the
                    \* frames come from the pose detector
    probe           \* the last call made on the API from outside the frame loop:
                    \* its arguments and how it ended

\* what is chosen when the session is configured
config == <<generate, sampling_rate, use_ffmpeg, fps_hint>>

conc == <<rpc, rlocal, cpc, clocal>>

vars == <<config, session_mgr, started, frame_idx, paused, sm, db, enc, elapsed, nRecv,
          nFed, closes, faults, conc, pose, probe>>

\* SessionManager.__init__
NewSessionManager ==
    [session_id |-> NoId,
     fps |-> None,
     handle |-> [v \in Variants |-> FALSE],
     video_path |-> [v \in Variants |-> FALSE],
     last_sample_time |-> 0,
     metric_records |-> [key \in Keys |-> <<>>],
     frames_written |-> 0,
     frames_recorded_to_db |-> 0,
     sequence_counter |-> 0]

EmptyDb ==
    [session |-> FALSE, paths |-> [v \in Variants |-> FALSE], movement |-> <<>>,
     metrics |-> {}]
NoEncoders == [v \in Variants |-> [state |-> "absent", frames |-> <<>>]]

World == [sm |-> sm, db |-> db, enc |-> enc]

\* ------------------------------------------------------------------ start
\* one variant's writer after start_session: does the attribute hold an object,
\* and is the encoder behind it open (spawned: the variants whose open succeeds)
HandleAfterStart(ffmpeg, gen, spawned, v) ==
    IF v \notin gen THEN FALSE
    ELSE IF ffmpeg THEN v \in spawned   \* _create_ffmpeg_writer returns None on failure
    ELSE TRUE                           \* a cv2.VideoWriter object, opened or not

\* the fps hint Processor.recv passes to start_session
TARGET_FPS == 20

\* an fps hint: a number of tenths of a frame per second (4 is 0.4 fps), or None
Tenths(n) == [k |-> "tenths", v |-> n]

\* Python's round() of n tenths: to the nearest integer, a tie to the even one
RoundTenths(n) ==
    LET q == n \div 10
        r == n % 10
    IN  IF r < 5 THEN q
        ELSE IF r > 5 THEN q + 1
        ELSE IF q % 2 = 0 THEN q ELSE q + 1

DefaultFps == 20

\* self.fps = int(round(fps)) if fps else 20
TargetFps(hint) ==
    IF hint = None \/ hint = Tenths(0) THEN DefaultFps ELSE RoundTenths(hint.v)

StartSession(w, ffmpeg, gen, spawned) ==
    [sm |-> [w.sm EXCEPT
                !.fps = Num(TargetFps(fps_hint)),
                !.sequence_counter = 0,
                !.video_path = [v \in Variants |-> v \in gen],
                !.handle = [v \in Variants |-> HandleAfterStart(ffmpeg, gen, spawned, v)],
                !.session_id = NewId],
     db |-> [w.db EXCEPT !.session = TRUE,
                         !.paths = [v \in Variants |-> v \in gen]],
     enc |-> [v \in Variants |->
                IF v \in gen /\ v \in spawned
                THEN [state |-> "open", frames |-> <<>>]
                ELSE w.enc[v]]]

\* a start_session that checks the disk space after opening the encoders
StartSessionChecksLast(w, ffmpeg, gen, spawned, start) ==
    IF start = "ok" THEN StartSession(w, ffmpeg, gen, spawned)
    ELSE [StartSession(w, ffmpeg, gen, spawned) EXCEPT !.sm.session_id = w.sm.session_id,
                                                      !.db = w.db]

\* how a start_session call ends: it returns, check_disk_space reports too little
\* space (RuntimeError, 178-180), or crud.create_session raises (301)
StartOutcomes == {"ok", "no_space", "no_row"}

StartSessionOutcome(w, ffmpeg, gen, spawned, start) ==
    IF start = "no_space"
    THEN [w EXCEPT !.sm.fps = Num(TargetFps(fps_hint)), !.sm.sequence_counter = 0]
    ELSE IF start = "no_row"
    THEN [StartSession(w, ffmpeg, gen, spawned) EXCEPT !.sm.session_id = w.sm.session_id,
                                                      !.db = w.db]
    ELSE StartSession(w, ffmpeg, gen, spawned)

\* ------------------------------------------------------------------ sampler
\* should_record_frame: the decision, and last_sample_time after the call;
\* e is the value elapsed_time() returns inside the call
ShouldRecordFrame(rate, e, last) == rate <= 0 \/ e - last >= rate

SampleTimeAfter(rate, e, last) ==
    IF rate > 0 /\ e - last >= rate THEN e ELSE last

\* ------------------------------------------------------------------ metrics
IsMetricKey(key) == HasAngle(key) \/ HasSymmetry(key)

Accumulates(key, val) == IsMetricKey(key) /\ val.k # "none" /\ ~IsNaN(val)

AccumulateMetrics(records, joints) ==
    [key \in Keys |->
        IF Accumulates(key, joints[key]) THEN Append(records[key], joints[key])
        ELSE records[key]]

\* record_frame_data returning before the accumulation when the frame is not persisted
RecordFrameDataSampledOnly(w, frame_index, elapsed_time, e, joints, store_ok) ==
    LET rate == sampling_rate
        persist == ShouldRecordFrame(rate, e, w.sm.last_sample_time)
        stored == persist /\ store_ok
    IN  [w EXCEPT
            !.sm.last_sample_time = SampleTimeAfter(rate, e, @),
            !.sm.frames_recorded_to_db = IF stored THEN @ + 1 ELSE @,
            !.sm.metric_records = IF stored THEN AccumulateMetrics(@, joints) ELSE @,
            !.db.movement = IF stored
                            THEN Append(@, [frame |-> frame_index, time_seconds |-> elapsed_time])
                            ELSE @]

\* record_frame_data raises RuntimeError before anything else
RecordFrameDataRaises(w) == w.sm.session_id = NoId

\* record_frame_data(frame_index, elapsed_time, joints) after the session_id test;
\* e: the clock as should_record_frame reads it, store_ok: add_movement_data succeeds
Recorded(w, frame_index, elapsed_time, e, joints, store_ok) ==
    LET rate == sampling_rate
        persist == ShouldRecordFrame(rate, e, w.sm.last_sample_time)
        stored == persist /\ store_ok
    IN  [w EXCEPT
            !.sm.last_sample_time = SampleTimeAfter(rate, e, @),
            !.sm.frames_recorded_to_db = IF stored THEN @ + 1 ELSE @,
            !.sm.metric_records = AccumulateMetrics(@, joints),
            !.db.movement = IF stored
                            THEN Append(@, [frame |-> frame_index, time_seconds |-> elapsed_time])
                            ELSE @]

\* a record_frame_data that does not test session_id
RecordFrameDataUnchecked(w, frame_index, elapsed_time, e, joints, store_ok) ==
    Recorded(w, frame_index, elapsed_time, e, joints, store_ok)

RecordFrameData(w, frame_index, elapsed_time, e, joints, store_ok) ==
    IF RecordFrameDataRaises(w) THEN w
    ELSE Recorded(w, frame_index, elapsed_time, e, joints, store_ok)

\* ------------------------------------------------------------------ video
\* one variant's write: the frame reaches the encoder
FrameAppended(handle, state, frame, raises) ==
    handle /\ frame # NoFrame /\ state = "open" /\ ~raises

CounterAfterWriteTwice(counter) == counter + 2

CounterAfterWrite(counter) == counter + 1

\* the order in which write_video_frames writes the variants
Position(v) == CASE v = "raw" -> 1 [] v = "mediapipe" -> 2 [] OTHER -> 3

\* write_video_frames calls the write of variant v
Attempted(w, frames, v) == w.sm.handle[v] /\ frames[v] # NoFrame

\* write_video_frames raises: the FFmpeg branch catches the exception of a write
\* (401-416), the OpenCV branch does not (420-427); loud: the failing write of a
\* cv2.VideoWriter raises instead of returning without writing
WriteRaises(w, frames, bad, loud) ==
    ~use_ffmpeg /\ loud /\ \E u \in bad : Attempted(w, frames, u)

\* a write to a writer that never opened raising out of the call
ReachedBehindOpened(w, frames, bad, loud, v) ==
    \A u \in Variants :
        (Attempted(w, frames, u) /\ w.enc[u].state = "absent") => Position(v) < Position(u)

\* the write of variant v is reached: no earlier write raised out of the call
Reached(w, frames, bad, loud, v) ==
    \A u \in bad :
        (~use_ffmpeg /\ loud /\ Attempted(w, frames, u)) => Position(v) < Position(u)

\* write_video_frames; bad: the variants whose write fails on this call
WriteVideoFrames(w, frames, bad, loud) ==
    [w EXCEPT
        !.enc = [v \in Variants |->
                    IF /\ FrameAppended(w.sm.handle[v], w.enc[v].state, frames[v], v \in bad)
                       /\ Reached(w, frames, bad, loud, v)
                    THEN [w.enc[v] EXCEPT !.frames = Append(@, frames[v])]
                    ELSE w.enc[v]],
        !.sm.frames_written = IF WriteRaises(w, frames, bad, loud) THEN @ ELSE @ + 1,
        !.sm.sequence_counter = IF WriteRaises(w, frames, bad, loud) THEN @
                                ELSE CounterAfterWrite(@)]

\* ------------------------------------------------------------------ close
StatOrder(stat) == CASE stat = "max" -> 1 [] stat = "min" -> 2 [] OTHER -> 3

\* a unit selection that looks at "symmetry" only
UnitOfAnySymmetry(metric_name) ==
    IF HasSymmetry(metric_name) THEN "pixels" ELSE "degrees"

\* the unit close_session gives a metric name
UnitOf(metric_name) ==
    IF HasSymmetry(metric_name) /\ HasUnderscoreY(metric_name) THEN "pixels" ELSE "degrees"

\* clean_vals of close_session
CleanVals(values) == SelectSeq(values, LAMBDA x : ~IsNaN(x))

StatValue(stat, clean) ==
    CASE stat = "max" -> FMax(clean)
      [] stat = "min" -> FMin(clean)
      [] OTHER -> FSub(FMax(clean), FMin(clean))

\* the add_metric calls of one close_session that reach the storage; bad_metric is
\* the call that raises (NoPair: none): the rest of that metric's try block is skipped
MetricRows(records, bad_metric, call) ==
    { [name |-> key, stat |-> stat, value |-> StatValue(stat, CleanVals(records[key])),
       unit |-> UnitOf(key), call |-> call] :
        <<key, stat>> \in
            { p \in Keys \X Stats :
                /\ CleanVals(records[p[1]]) # <<>>
                /\ (p[1] = bad_metric[1] => StatOrder(p[2]) < StatOrder(bad_metric[2])) } }

\* the close of one encoder; raises: stdin.close(), wait(timeout=10) or release()
\* raises, and the output is left unfinished
EncoderAfterClose(handle, e, raises) ==
    IF handle /\ e.state = "open"
    THEN [e EXCEPT !.state = IF raises THEN "broken" ELSE "closed"]
    ELSE e

\* the close of variant v's encoder raises: the ffmpeg process is dead, or the
\* environment makes this close fail or time out (stuck)
CloseRaises(w, stuck, v) ==
    w.sm.handle[v] /\ (v \in stuck \/ w.enc[v].state = "broken")

\* a close_session that lets the exception of an encoder's close out
CloseSessionAborting(w, bad_metric, call, stuck) ==
    LET raising == {v \in Variants : CloseRaises(w, stuck, v)}
        reached(v) == \A u \in raising : Position(v) <= Position(u)
    IN  [w EXCEPT
            !.enc = [v \in Variants |->
                        IF reached(v)
                        THEN EncoderAfterClose(w.sm.handle[v], w.enc[v], v \in stuck)
                        ELSE w.enc[v]],
            !.db.metrics = IF w.sm.session_id = NoId \/ raising # {} THEN @
                           ELSE @ \cup MetricRows(w.sm.metric_records, bad_metric, call)]

\* close_session; call numbers the call (history), stuck: the variants whose
\* encoder the environment makes fail to close
CloseSession(w, bad_metric, call, stuck) ==
    [w EXCEPT
        !.enc = [v \in Variants |->
                    EncoderAfterClose(w.sm.handle[v], w.enc[v], v \in stuck)],
        !.db.metrics = IF w.sm.session_id = NoId THEN @
                       ELSE @ \cup MetricRows(w.sm.metric_records, bad_metric, call)]

\* a discard that removes only the files of encoders that were closed in order
DiscardClosedOnly(w) ==
    [w EXCEPT
        !.db = IF w.sm.session_id = NoId THEN @ ELSE EmptyDb,
        !.enc = [v \in Variants |->
                    IF w.sm.video_path[v] /\ w.enc[v].state = "closed"
                    THEN [state |-> "removed", frames |-> <<>>]
                    ELSE w.enc[v]]]

\* crud.delete_session and the removal of the output files in close_and_discard
Discard(w) ==
    [w EXCEPT
        !.db = IF w.sm.session_id = NoId THEN @ ELSE EmptyDb,
        !.enc = [v \in Variants |->
                    IF w.sm.video_path[v] /\ w.enc[v].state # "absent"
                    THEN [state |-> "removed", frames |-> <<>>]
                    ELSE w.enc[v]]]

\* ------------------------------------------------------------------ environments
\* What the environment of one specification may do: the configurations the session
\* is created with, the joints dicts and clock advances a callback may see, and the
\* failures that may be injected (storage calls, frame writes, encoder opens).
S10 == JointsWith([angle_arm_r |-> Num(10), symmetry_knee_y |-> NaN, knee_y_r |-> Num(7)])

S20 == JointsWith([angle_arm_r |-> Num(20), angle_arm_l |-> Num(20),
                   symmetry_angle_arm |-> Num(0), symmetry_knee_y |-> PosInf,
                   knee_y_r |-> Num(7)])

VideoEnv ==
    [generate |-> {{"legacy"}, {"raw", "legacy"}, {"raw", "mediapipe"}},
     sampling_rate |-> {0},
     use_ffmpeg |-> {TRUE},
     fps_hints |-> {Tenths(10 * TARGET_FPS)},
     joints |-> {S10, NoJoints},
     dts |-> {1},
     skews |-> {0},
     store_fails |-> FALSE,
     write_fails |-> TRUE,
     open_fails |-> TRUE,
     start_fails |-> FALSE,
     metric_fails |-> FALSE,
     close_fails |-> FALSE]

DataEnv ==
    [generate |-> {{"legacy"}},
     sampling_rate |-> SamplingRates,
     use_ffmpeg |-> {TRUE},
     fps_hints |-> {Tenths(10 * TARGET_FPS)},
     joints |-> JointSamples,
     dts |-> {1},
     skews |-> {0},
     store_fails |-> TRUE,
     write_fails |-> FALSE,
     open_fails |-> FALSE,
     start_fails |-> FALSE,
     metric_fails |-> FALSE,
     close_fails |-> FALSE]

SamplerEnv ==
    [generate |-> {{"legacy"}},
     sampling_rate |-> SamplingRates,
     use_ffmpeg |-> {TRUE},
     fps_hints |-> {Tenths(10 * TARGET_FPS)},
     joints |-> {S10},
     dts |-> 0..2,
     skews |-> 0..1,
     store_fails |-> FALSE,
     write_fails |-> FALSE,
     open_fails |-> FALSE,
     start_fails |-> FALSE,
     metric_fails |-> FALSE,
     close_fails |-> FALSE]

\* ------------------------------------------------------------------ actions
\* no frame has come from the pose detector
NoPose == [landmarks |-> NoLandmarks, joint_data |-> NoJoints]

\* no call has been made from outside the frame loop
NoProbe == [n |-> 0, call |-> "none"]

NoLocals == [joints |-> NoJoints, sequence_num |-> 0]
NoCloseLocals == [names |-> {}, discard |-> FALSE]

\* the state after construction, but for the calls made from outside
InitSession(env) ==
    /\ generate \in env.generate
    /\ sampling_rate \in env.sampling_rate
    /\ use_ffmpeg \in env.use_ffmpeg
    /\ fps_hint \in env.fps_hints
    /\ pose = NoPose
    /\ session_mgr = FALSE
    /\ started = FALSE
    /\ frame_idx = 0
    /\ paused = FALSE
    /\ sm = NewSessionManager
    /\ db = EmptyDb
    /\ enc = NoEncoders
    /\ elapsed = 0
    /\ nRecv = 0
    /\ nFed = 0
    /\ closes = 0
    /\ faults = 0
    /\ rpc = "idle"
    /\ rlocal = NoLocals
    /\ cpc = "idle"
    /\ clocal = NoCloseLocals

InitIn(env) ==
    /\ probe = NoProbe
    /\ InitSession(env)

\* the frames Processor.recv renders: one per generated variant, carrying sequence_num
RenderedFrames(gen, sequence_num) ==
    [v \in Variants |-> IF v \in gen THEN sequence_num ELSE NoFrame]

\* a recv that records every frame of a session with the clinical variant
RecvRecordsAlways(gen, joints, p) == "legacy" \in gen /\ ~p

\* recv calls record_frame_data (sessions.py 298-321)
RecvRecords(gen, joints, p) == "legacy" \in gen /\ joints # NoJoints /\ ~p

RecvWritesAlways(p) == TRUE

\* recv calls write_video_frames (sessions.py 332)
RecvWrites(p) == ~p

\* Processor.recv, one whole callback.
\*   joints: the joints dict, or NoJoints;  dt: time since the clock was last read;
\*   skew: clock advance between recv's elapsed_time() and should_record_frame's;
\*   store_ok: add_movement_data succeeds;  bad: variants whose write fails, loud:
\*   by raising;  spawned: variants whose encoder opens and start: how start_session
\*   ends, when this callback starts the session
\* A start_session that raises leaves session_mgr set and started False
\* (_ensure_session, sessions.py 240-253), and recv raises.
Recv(joints, dt, skew, store_ok, bad, loud, spawned, start) ==
    LET fails == ~started /\ start # "ok"
        w0 == IF started THEN World
              ELSE StartSessionOutcome([sm |-> NewSessionManager, db |-> db, enc |-> enc],
                                       use_ffmpeg, generate, spawned, start)
        t == (IF started THEN elapsed ELSE 0) + dt
        sequence_num == w0.sm.sequence_counter
        rec == ~fails /\ RecvRecords(generate, joints, paused)
        wr == ~fails /\ RecvWrites(paused)
        persist == rec /\ ShouldRecordFrame(sampling_rate, t + skew, w0.sm.last_sample_time)
        w1 == IF rec
              THEN RecordFrameData(w0, frame_idx, t, t + skew, joints, store_ok)
              ELSE w0
        frames == RenderedFrames(generate, sequence_num)
        w2 == IF wr THEN WriteVideoFrames(w1, frames, bad, loud) ELSE w1
        injected == Cardinality(bad) + Cardinality(generate \ spawned)
                    + (IF store_ok THEN 0 ELSE 1) + (IF fails THEN 1 ELSE 0)
    IN  /\ nRecv < MaxFrames
        /\ started => (spawned = generate /\ start = "ok")
        /\ start = "no_space" => spawned = generate
        /\ ~persist => store_ok
        /\ (skew > 0) => (rec /\ sampling_rate > 0)
        /\ bad \subseteq {v \in generate : wr /\ w1.sm.handle[v] /\ w1.enc[v].state = "open"}
        /\ loud => (~use_ffmpeg /\ bad # {})
        /\ faults + injected <= MaxFaults
        /\ sm' = w2.sm
        /\ db' = w2.db
        /\ enc' = w2.enc
        /\ session_mgr' = TRUE
        /\ started' = ~fails
        /\ frame_idx' = IF wr /\ ~WriteRaises(w1, frames, bad, loud)
                         THEN frame_idx + 1 ELSE frame_idx
        /\ elapsed' = IF fails THEN elapsed ELSE t + skew
        /\ nRecv' = nRecv + 1
        /\ nFed' = IF joints # NoJoints /\ ~paused /\ closes = 0 /\ ~fails
                    THEN nFed + 1 ELSE nFed
        /\ faults' = faults + injected
        /\ UNCHANGED <<config, probe, paused, closes, conc>>

RecvFrame(env) ==
    \E joints \in env.joints, dt \in env.dts, skew \in env.skews,
       store_ok \in (IF env.store_fails THEN BOOLEAN ELSE {TRUE}),
       bad \in (IF env.write_fails THEN SUBSET generate ELSE {{}}),
       loud \in (IF env.write_fails THEN BOOLEAN ELSE {FALSE}),
       spawned \in (IF env.open_fails /\ ~started THEN SUBSET generate ELSE {generate}),
       start \in (IF env.start_fails /\ ~started THEN StartOutcomes ELSE {"ok"}) :
        /\ Recv(joints, dt, skew, store_ok, bad, loud, spawned, start)
        /\ pose' = pose

\* the pause / resume buttons (sessions.py 550-558)
Pause ==
    /\ ~paused
    /\ paused' = TRUE
    /\ UNCHANGED <<config, pose, probe, session_mgr, started, frame_idx,
                   sm, db, enc, elapsed, nRecv, nFed, closes, faults, conc>>

Resume ==
    /\ paused
    /\ paused' = FALSE
    /\ UNCHANGED <<config, pose, probe, session_mgr, started, frame_idx,
                   sm, db, enc, elapsed, nRecv, nFed, closes, faults, conc>>

\* the add_metric calls the environment may fail
MetricFaults == {"angle_arm_r"} \X Stats

\* the encoders a close can be made to fail on
Closable == {v \in Variants : sm.handle[v] /\ enc[v].state = "open"}

\* Processor.close_and_save; bad_metric: the add_metric call that raises, or NoPair;
\* stuck: the encoders whose close fails
CloseAndSave(bad_metric, stuck) ==
    /\ session_mgr
    /\ closes < MaxCloses
    /\ stuck \subseteq Closable
    /\ faults + Cardinality(stuck) + (IF bad_metric = NoPair THEN 0 ELSE 1) <= MaxFaults
    /\ bad_metric # NoPair =>
            /\ sm.session_id # NoId
            /\ CleanVals(sm.metric_records[bad_metric[1]]) # <<>>
    /\ LET w == CloseSession(World, bad_metric, closes + 1, stuck)
       IN  /\ sm' = w.sm
           /\ db' = w.db
           /\ enc' = w.enc
    /\ closes' = closes + 1
    /\ faults' = faults + Cardinality(stuck) + (IF bad_metric = NoPair THEN 0 ELSE 1)
    /\ UNCHANGED <<config, pose, probe, session_mgr, started, frame_idx,
                   paused, elapsed, nRecv, nFed, conc>>

\* Processor.close_and_discard
CloseAndDiscard(stuck) ==
    /\ session_mgr
    /\ closes < MaxCloses
    /\ stuck \subseteq Closable
    /\ faults + Cardinality(stuck) <= MaxFaults
    /\ LET w == Discard(CloseSession(World, NoPair, closes + 1, stuck))
       IN  /\ sm' = w.sm
           /\ db' = w.db
           /\ enc' = w.enc
    /\ closes' = closes + 1
    /\ faults' = faults + Cardinality(stuck)
    /\ UNCHANGED <<config, pose, probe, session_mgr, started, frame_idx,
                   paused, elapsed, nRecv, nFed, conc>>

NextIn(env) ==
    \/ RecvFrame(env)
    \/ Pause
    \/ Resume
    \/ \E bad_metric \in (IF env.metric_fails THEN MetricFaults \cup {NoPair} ELSE {NoPair}),
          stuck \in (IF env.close_fails THEN SUBSET Variants ELSE {{}}) :
            CloseAndSave(bad_metric, stuck)
    \/ \E stuck \in (IF env.close_fails THEN SUBSET Variants ELSE {{}}) :
            CloseAndDiscard(stuck)

Init == InitIn(VideoEnv)
Next == NextIn(VideoEnv)
Spec == Init /\ [][Next]_vars

InitData == InitIn(DataEnv)
NextData == NextIn(DataEnv)
SpecData == InitData /\ [][NextData]_vars

InitSampler == InitIn(SamplerEnv)
NextSampler == NextIn(SamplerEnv)
SpecSampler == InitSampler /\ [][NextSampler]_vars

\* ------------------------------------------------------------------ backends
\* Both writer backends, with every failure of the start and of the encoders: too
\* little disk space, create_session raising, an encoder that does not open, a write
\* that fails, and an ffmpeg process that dies while the session runs.
BackendEnv ==
    [generate |-> {{"legacy"}, {"raw", "legacy"}},
     sampling_rate |-> {0},
     use_ffmpeg |-> BOOLEAN,
     fps_hints |-> {Tenths(10 * TARGET_FPS)},
     joints |-> {S10},
     dts |-> {1},
     skews |-> {0},
     store_fails |-> FALSE,
     write_fails |-> TRUE,
     open_fails |-> TRUE,
     start_fails |-> TRUE,
     metric_fails |-> FALSE,
     close_fails |-> TRUE]

\* the ffmpeg process of variant v dies: its pipe is broken from now on, every write
\* to it and the close of its stdin raise (caught at 403, 409, 415 and 466-483)
EncoderCrash(v) ==
    /\ use_ffmpeg
    /\ started
    /\ sm.handle[v]
    /\ enc[v].state = "open"
    /\ faults < MaxFaults
    /\ enc' = [enc EXCEPT ![v].state = "broken"]
    /\ faults' = faults + 1
    /\ UNCHANGED <<config, pose, probe, session_mgr, started, frame_idx,
                   paused, sm, db, elapsed, nRecv, nFed, closes, conc>>

\* a callback that starts the session, start_session ending in one of outcomes
RecvStarting(outcomes) ==
    /\ ~started
    /\ \E joints \in BackendEnv.joints, dt \in BackendEnv.dts, bad \in SUBSET generate,
          loud \in BOOLEAN, spawned \in SUBSET generate, start \in outcomes :
            Recv(joints, dt, 0, TRUE, bad, loud, spawned, start)

InitBackend == InitIn(BackendEnv)

NextBackend ==
    \/ NextIn(BackendEnv)
    \/ \E v \in Variants : EncoderCrash(v)

SpecBackend == InitBackend /\ [][NextBackend]_vars

\* ------------------------------------------------------------------ callers
\* The SessionManager driven by a caller of its own (main_webcam.py, the
\* uploaded-video loop): start_session receives the fps of the source, and
\* record_frame_data may be called whatever start_session did.
FpsHints ==
    {None, Tenths(0), Tenths(4), Tenths(25), Tenths(300), Tenths(-50)}

ApiEnv ==
    [generate |-> {{"legacy"}},
     sampling_rate |-> {0},
     use_ffmpeg |-> {TRUE},
     fps_hints |-> FpsHints,
     joints |-> {S10},
     dts |-> {1},
     skews |-> {0},
     store_fails |-> FALSE,
     write_fails |-> FALSE,
     open_fails |-> FALSE,
     start_fails |-> TRUE,
     metric_fails |-> FALSE,
     close_fails |-> FALSE]

\* a call of record_frame_data from outside the frame loop
RecordCall(joints) ==
    /\ probe.n < MaxProbes
    /\ LET w == RecordFrameData(World, frame_idx, elapsed, elapsed, joints, TRUE)
       IN  /\ sm' = w.sm
           /\ db' = w.db
           /\ enc' = w.enc
    /\ probe' = [n |-> probe.n + 1, call |-> "record_frame_data",
                 raised |-> RecordFrameDataRaises(World)]
    /\ UNCHANGED <<config, pose, session_mgr, started, frame_idx, paused, elapsed, nRecv,
                   nFed, closes, faults, conc>>

InitApi == InitIn(ApiEnv)

NextApi ==
    \/ NextIn(ApiEnv)
    \/ \E joints \in ApiEnv.joints : RecordCall(joints)

SpecApi == InitApi /\ [][NextApi]_vars

\* ------------------------------------------------------------------ geometry calls
\* calculate_angle and _extract_joint_data called on their own.
Coords == {Num(0), Num(1), NaN, PosInf}

\* the arguments of calculate_angle: points with finite, NaN or infinite
\* coordinates, and a missing point
Points == (Coords \X Coords) \cup {NoPoint}

\* normalized landmark positions: the corners of the frame
Corners == {0, 1} \X {0, 1}

Limbs == Corners \X Corners \X Corners

\* the frames are square, which keeps the angles between landmarks on the corners
\* multiples of 45 degrees (0, 45 and 90 occur)
Frame == [w |-> 100, h |-> 100]

\* a complete landmarks dict: the three landmarks of each arm and leg, the feet
PoseOf(arm_r, arm_l, leg_r, leg_l) ==
    [name \in Required |->
        CASE name = "RIGHT_SHOULDER" -> arm_r[1]
          [] name = "RIGHT_ELBOW" -> arm_r[2]
          [] name = "RIGHT_WRIST" -> arm_r[3]
          [] name = "LEFT_SHOULDER" -> arm_l[1]
          [] name = "LEFT_ELBOW" -> arm_l[2]
          [] name = "LEFT_WRIST" -> arm_l[3]
          [] name = "RIGHT_HIP" -> leg_r[1]
          [] name = "RIGHT_KNEE" -> leg_r[2]
          [] name = "RIGHT_ANKLE" -> leg_r[3]
          [] name = "LEFT_HIP" -> leg_l[1]
          [] name = "LEFT_KNEE" -> leg_l[2]
          [] name = "LEFT_ANKLE" -> leg_l[3]
          [] OTHER -> <<0, 1>>]

\* a landmarks dict without the landmark name
Without(lm, name) == [n \in DOMAIN lm \ {name} |-> lm[n]]

\* limbs: shoulder or hip, elbow or knee, wrist or ankle
Shut == <<(<<0, 0>>), (<<0, 1>>), (<<0, 0>>)>>
Bent == <<(<<0, 0>>), (<<0, 1>>), (<<1, 1>>)>>
Folded == <<(<<0, 0>>), (<<1, 1>>), (<<1, 1>>)>>

\* the landmarks dicts given to _extract_joint_data
LandmarkDicts ==
    {PoseOf(arm_r, arm_l, leg_r, leg_l) :
        arm_r \in Limbs, arm_l \in Limbs, leg_r \in {Shut, Bent},
        leg_l \in {Bent, Folded}}
    \cup {Without(PoseOf(Bent, Shut, Bent, Bent), name) : name \in Required}
    \cup {NoLandmarks}

GeometryEnv ==
    [generate |-> {{"legacy"}},
     sampling_rate |-> {0},
     use_ffmpeg |-> {TRUE},
     fps_hints |-> {Tenths(10 * TARGET_FPS)}]

\* the result of a call that has not been made
Pending == [k |-> "pending", v |-> 0]

\* the calls to make: calculate_angle on three points, _extract_joint_data on a
\* landmarks dict
Calls ==
    {[n |-> 0, call |-> "calculate_angle", a |-> a, b |-> b, c |-> c, result |-> Pending] :
        a \in Points, b \in Points, c \in Points}
    \cup {[n |-> 0, call |-> "_extract_joint_data", lm |-> lm, joint_data |-> NoJoints] :
            lm \in LandmarkDicts}

AngleCall ==
    /\ probe.call = "calculate_angle"
    /\ probe.n < MaxProbes
    /\ probe' = [probe EXCEPT !.n = @ + 1,
                              !.result = CalculateAngle(probe.a, probe.b, probe.c)]
    /\ UNCHANGED <<config, pose, session_mgr, started, frame_idx, paused, sm, db, enc,
                   elapsed, nRecv, nFed, closes, faults, conc>>

ExtractCall ==
    /\ probe.call = "_extract_joint_data"
    /\ probe.n < MaxProbes
    /\ probe' = [probe EXCEPT !.n = @ + 1,
                              !.joint_data = ExtractJointData(probe.lm, Frame.w, Frame.h)]
    /\ UNCHANGED <<config, pose, session_mgr, started, frame_idx, paused, sm, db, enc,
                   elapsed, nRecv, nFed, closes, faults, conc>>

InitGeometry ==
    /\ probe \in Calls
    /\ InitSession(GeometryEnv)

NextGeometry ==
    \/ AngleCall
    \/ ExtractCall

SpecGeometry == InitGeometry /\ [][NextGeometry]_vars

\* ------------------------------------------------------------------ pose
\* Frame callbacks whose joints come from the landmarks of the pose detector.
PoseEnv ==
    [generate |-> {{"raw", "legacy"}},
     sampling_rate |-> {0},
     use_ffmpeg |-> {TRUE},
     fps_hints |-> {Tenths(10 * TARGET_FPS)}]

\* what extract_landmarks returns for the frames: complete poses, a pose without
\* one foot landmark, one without a shoulder, and no pose
PoseSamples ==
    {PoseOf(Bent, Bent, Bent, Bent),
     PoseOf(Bent, Shut, Bent, Folded),
     Without(PoseOf(Bent, Bent, Bent, Bent), "LEFT_FOOT_INDEX"),
     Without(PoseOf(Bent, Shut, Bent, Bent), "RIGHT_SHOULDER"),
     NoLandmarks}

\* Processor.recv on a frame in which the detector found the landmarks lm
RecvPose(lm) ==
    LET joint_data == ExtractJointData(lm, Frame.w, Frame.h)
    IN  /\ Recv(joint_data, 1, 0, TRUE, {}, FALSE, generate, "ok")
        /\ pose' = [landmarks |-> lm, joint_data |-> joint_data]

InitPose == InitIn(PoseEnv)

NextPose ==
    \/ \E lm \in PoseSamples : RecvPose(lm)
    \/ Pause
    \/ Resume
    \/ CloseAndSave(NoPair, {})
    \/ CloseAndDiscard({})

SpecPose == InitPose /\ [][NextPose]_vars

\* ------------------------------------------------------------------ interleaving
\* Processor.recv runs on the capture thread and the buttons on the UI thread; the
\* code takes no lock, so the statements of one run between the statements of the
\* other.  recv is cut where it reads or writes what the other thread touches;
\* close_session is cut after the encoders are closed and where its loop starts.
ConcEnv ==
    [generate |-> {{"legacy"}},
     sampling_rate |-> {0},
     use_ffmpeg |-> {TRUE},
     fps_hints |-> {Tenths(10 * TARGET_FPS)},
     joints |-> {S10, S20}]

\* all nine angle and symmetry metrics observed in one frame
SAll == JointsWith([angle_arm_r |-> Num(30), angle_arm_l |-> Num(25), angle_leg_r |-> Num(40),
                    angle_leg_l |-> Num(45), symmetry_angle_arm |-> Num(5),
                    symmetry_angle_leg |-> Num(5), symmetry_shoulder_y |-> Num(3),
                    symmetry_elbow_y |-> Num(2), symmetry_knee_y |-> Num(1),
                    knee_y_r |-> Num(8)])

\* sessions that are closed and saved, with every metric observed and with add_metric
\* calls that fail
SummaryEnv ==
    [generate |-> {{"legacy"}},
     sampling_rate |-> {0},
     use_ffmpeg |-> {TRUE},
     fps_hints |-> {Tenths(10 * TARGET_FPS)},
     joints |-> {S10, SAll},
     dts |-> {1},
     skews |-> {0},
     store_fails |-> FALSE,
     write_fails |-> FALSE,
     open_fails |-> FALSE,
     start_fails |-> FALSE,
     metric_fails |-> TRUE,
     close_fails |-> FALSE]

InitSummary == InitIn(SummaryEnv)
NextSummary == NextIn(SummaryEnv)
SpecSummary == InitSummary /\ [][NextSummary]_vars

\* the metric names present in the metric_records dict
MetricNames(records) == {key \in Keys : records[key] # <<>>}

\* recv up to the read of sequence_counter (sessions.py 256-265)
ConcRecvBegin(joints) ==
    LET w0 == IF started THEN World
              ELSE StartSession([sm |-> NewSessionManager, db |-> db, enc |-> enc],
                                use_ffmpeg, generate, generate)
    IN  /\ rpc = "idle"
        /\ nRecv < MaxFrames
        /\ sm' = w0.sm
        /\ db' = w0.db
        /\ enc' = w0.enc
        /\ session_mgr' = TRUE
        /\ started' = TRUE
        /\ elapsed' = (IF started THEN elapsed ELSE 0) + 1
        /\ nRecv' = nRecv + 1
        /\ rlocal' = [joints |-> joints, sequence_num |-> w0.sm.sequence_counter]
        /\ rpc' = "record"
        /\ UNCHANGED <<config, pose, probe, frame_idx, paused, nFed,
                       closes, faults, cpc, clocal>>

\* the paused test of sessions.py 313 and the record_frame_data call it guards
ConcRecvRecord ==
    LET w1 == IF RecvRecords(generate, rlocal.joints, paused)
              THEN RecordFrameData(World, frame_idx, elapsed, elapsed, rlocal.joints, TRUE)
              ELSE World
    IN  /\ rpc = "record"
        /\ sm' = w1.sm
        /\ db' = w1.db
        /\ rpc' = "write"
        /\ UNCHANGED <<config, pose, probe, session_mgr, started, frame_idx,
                       paused, enc, elapsed, nRecv, nFed, closes, faults, rlocal, cpc,
                       clocal>>

\* the paused test of sessions.py 332 and the encoder writes of write_video_frames
ConcRecvWrite ==
    /\ rpc = "write"
    /\ IF RecvWrites(paused)
       THEN /\ enc' = WriteVideoFrames(World, RenderedFrames(generate, rlocal.sequence_num),
                                       {}, FALSE).enc
            /\ rpc' = "count"
       ELSE /\ enc' = enc
            /\ rpc' = "idle"
    /\ UNCHANGED <<config, pose, probe, session_mgr, started, frame_idx,
                   paused, sm, db, elapsed, nRecv, nFed, closes, faults, rlocal, cpc,
                   clocal>>

\* the counter increments ending write_video_frames, and frame_idx += 1
ConcRecvCount ==
    /\ rpc = "count"
    /\ sm' = [sm EXCEPT !.frames_written = @ + 1,
                        !.sequence_counter = CounterAfterWrite(@)]
    /\ frame_idx' = frame_idx + 1
    /\ rpc' = "idle"
    /\ UNCHANGED <<config, pose, probe, session_mgr, started, paused, db,
                   enc, elapsed, nRecv, nFed, closes, faults, rlocal, cpc, clocal>>

\* close_and_save / close_and_discard entering close_session: the encoders are closed
ConcCloseBegin(discard) ==
    /\ cpc = "idle"
    /\ session_mgr
    /\ closes < MaxCloses
    /\ enc' = [v \in Variants |-> EncoderAfterClose(sm.handle[v], enc[v], FALSE)]
    /\ clocal' = [names |-> {}, discard |-> discard]
    /\ cpc' = "reduce"
    /\ UNCHANGED <<config, pose, probe, session_mgr, started, frame_idx,
                   paused, sm, db, elapsed, nRecv, nFed, closes, faults, rpc, rlocal>>

\* close_session after the encoders: it returns when metric_records is empty
\* (session_manager.py 512-518), else it enters the loop over metric_records.items()
ConcCloseReduce ==
    /\ cpc = "reduce"
    /\ clocal' = [clocal EXCEPT !.names = MetricNames(sm.metric_records)]
    /\ IF MetricNames(sm.metric_records) = {}
       THEN /\ closes' = closes + 1
            /\ cpc' = IF clocal.discard THEN "discard" ELSE "idle"
       ELSE /\ closes' = closes
            /\ cpc' = "persist"
    /\ UNCHANGED <<config, pose, probe, session_mgr, started, frame_idx,
                   paused, sm, db, enc, elapsed, nRecv, nFed, faults, rpc, rlocal>>

\* the loop of close_session.  A list is read when the loop reaches its name, so it
\* holds what recv appended meanwhile; a name added meanwhile makes the dict iterator
\* raise, which ends the loop after the names in done.
ConcClosePersist ==
    /\ cpc = "persist"
    /\ \E done \in SUBSET clocal.names :
        /\ MetricNames(sm.metric_records) = clocal.names => done = clocal.names
        /\ db' = [db EXCEPT !.metrics =
                    IF sm.session_id = NoId THEN @
                    ELSE @ \cup {r \in MetricRows(sm.metric_records, NoPair, closes + 1) :
                                    r.name \in done}]
    /\ closes' = closes + 1
    /\ cpc' = IF clocal.discard THEN "discard" ELSE "idle"
    /\ UNCHANGED <<config, pose, probe, session_mgr, started, frame_idx,
                   paused, sm, enc, elapsed, nRecv, nFed, faults, rpc, rlocal, clocal>>

\* the rest of close_and_discard (sessions.py 373-385)
ConcDiscard ==
    /\ cpc = "discard"
    /\ db' = Discard(World).db
    /\ enc' = Discard(World).enc
    /\ cpc' = "idle"
    /\ UNCHANGED <<config, pose, probe, session_mgr, started, frame_idx,
                   paused, sm, elapsed, nRecv, nFed, closes, faults, rpc, rlocal, clocal>>

InitConc == InitIn(ConcEnv)

NextConc ==
    \/ \E joints \in ConcEnv.joints : ConcRecvBegin(joints)
    \/ ConcRecvRecord
    \/ ConcRecvWrite
    \/ ConcRecvCount
    \/ Pause
    \/ Resume
    \/ \E discard \in BOOLEAN : ConcCloseBegin(discard)
    \/ ConcCloseReduce
    \/ ConcClosePersist
    \/ ConcDiscard

SpecConc == InitConc /\ [][NextConc]_vars

\* ------------------------------------------------------------------ claims
\* C1: a session with only the clinical (legacy) variant and sampling interval 0, fed
\* N frames with complete landmarks, unpaused, with no failure, has N frames on the
\* clinical encoder, a sequence counter of N and N persisted add_movement_data calls.
C1_FedFramesCounted ==
    (generate = {"legacy"} /\ sampling_rate = 0 /\ faults = 0 /\ nFed = nRecv) =>
        /\ sm.sequence_counter = nRecv
        /\ sm.frames_recorded_to_db = nRecv
        /\ db.session => Len(db.movement) = nRecv
        /\ enc["legacy"].state # "removed" => Len(enc["legacy"].frames) = nRecv

C1_Witness ==
    /\ generate = {"legacy"} /\ sampling_rate = 0 /\ faults = 0
    /\ nFed = nRecv /\ nRecv >= 3
    /\ sm.sequence_counter = nRecv
    /\ Len(db.movement) = nRecv
    /\ Len(enc["legacy"].frames) = nRecv

\* C2: on every encoder, the sequence number drawn on a frame equals the number of
\* frames appended to that encoder before it (its position in the output stream).
C2_SequenceMatchesPosition ==
    \A v \in Variants : \A i \in 1..Len(enc[v].frames) : enc[v].frames[i] = i - 1

\* C3: once close_session has returned, a later frame callback (write_video_frames,
\* record_frame_data) changes neither the counters, the metric series, the persisted
\* per-frame rows nor the encoders.
C3_ClosedIsTerminal ==
    [][(closes > 0 /\ nRecv' = nRecv + 1) =>
        /\ sm'.sequence_counter = sm.sequence_counter
        /\ sm'.frames_written = sm.frames_written
        /\ sm'.metric_records = sm.metric_records
        /\ sm'.handle = sm.handle
        /\ db'.movement = db.movement
        /\ enc' = enc]_vars

\* C4: each summary statistic (<metric>_max, _min, _range) is persisted at most once
\* for the session, whatever the sequence of operations.
C4_StatisticPersistedOnce ==
    \A r1, r2 \in db.metrics : (r1.name = r2.name /\ r1.stat = r2.stat) => r1 = r2

\* C5: under every interleaving of recv with a close, no step of recv appends a frame
\* to an encoder or increments the sequence counter once close_session has begun
\* closing the encoders, and none accumulates a metric value once the aggregation
\* loop of close_session has started.
C5_CloseExcludesRecv ==
    [][(rpc' # rpc /\ cpc # "idle") =>
            /\ sm'.sequence_counter = sm.sequence_counter
            /\ \A v \in Variants : enc'[v].frames = enc[v].frames
            /\ cpc = "persist" => sm'.metric_records = sm.metric_records]_vars

\* C6: a frame arriving while the started session is paused changes nothing of the
\* session: encoders and their frames, counters, metric series, session id, rows.
C6_PausedFramesChangeNothing ==
    [][(paused /\ started /\ nRecv' = nRecv + 1) =>
        (sm' = sm /\ db' = db /\ enc' = enc /\ frame_idx' = frame_idx)]_vars

\* a frame at time 1, a paused frame at time 2, and after resume a frame at time 3 that
\* the same session and encoder received
C6_Witness ==
    /\ generate = {"legacy"} /\ closes = 0 /\ ~paused
    /\ sm.sequence_counter = 2
    /\ Len(enc["legacy"].frames) = 2 /\ enc["legacy"].state = "open"
    /\ Len(db.movement) = 2
    /\ db.movement[1].time_seconds = 1 /\ db.movement[2].time_seconds = 3

\* C7: every record_frame_data call on a started session appends each non-null,
\* non-NaN angle/symmetry value of the frame to that metric's series and nothing else,
\* whether or not the frame was persisted (sampler false, or add_movement_data
\* failed), and the callback goes on to write the frame.
C7_EveryCallAccumulates ==
    [][(nRecv' = nRecv + 1 /\ ~paused) =>
        /\ \E joints \in JointSamples : \A key \in Keys :
              sm'.metric_records[key] =
                  IF (HasAngle(key) \/ HasSymmetry(key))
                     /\ joints[key] # None /\ joints[key] # NaN
                  THEN Append(sm.metric_records[key], joints[key])
                  ELSE sm.metric_records[key]
        /\ sm'.sequence_counter = sm.sequence_counter + 1]_vars

\* three calls accumulated, none persisted: the sampler refused two of them and
\* add_movement_data failed for the third; a null angle was not accumulated
C7_Witness ==
    /\ sampling_rate > 0 /\ faults = 1 /\ closes = 0
    /\ Len(sm.metric_records["angle_arm_r"]) = 3
    /\ Len(sm.metric_records["angle_arm_l"]) < 3
    /\ Len(db.movement) = 0
    /\ sm.sequence_counter = 3

\* C8: with a sampling interval T > 0 the first sampler call of a session answers
\* true whatever the elapsed time; the second answers true exactly when it is made
\* at least T after the first.
C8_FirstCallPersists ==
    [][(sampling_rate > 0 /\ closes = 0 /\ nRecv' = nRecv + 1 /\ ~paused) =>
        /\ Len(sm.metric_records["angle_arm_r"]) = 0 => Len(db'.movement) = 1
        /\ Len(sm.metric_records["angle_arm_r"]) = 1 =>
              (Len(db'.movement) = 2 <=> elapsed' - sm.last_sample_time >= sampling_rate)]_vars

\* C9: with a sampling interval T > 0, the elapsed times stored with any two rows
\* persisted by the session differ by at least T.
C9_PersistedRowsSpaced ==
    sampling_rate > 0 =>
        \A i, j \in 1..Len(db.movement) :
            i < j => db.movement[j].time_seconds - db.movement[i].time_seconds >= sampling_rate

\* C10: after a close (rows not deleted) of a session whose frames all arrived before
\* it, every metric with accumulated values has its three rows; <name>_max is the
\* largest and <name>_min the smallest accumulated value, and <name>_range is
\* max - min and >= 0.
C10_SummaryStatistics ==
    (closes > 0 /\ db.session /\ nFed = nRecv) =>
        \A key \in Keys :
            LET values == sm.metric_records[key]
                rows == {r \in db.metrics : r.name = key}
            IN  values # <<>> =>
                  /\ \A stat \in Stats : \E r \in rows : r.stat = stat
                  /\ \A r \in rows :
                        /\ r.stat = "max" =>
                              (r.value \in Range(values) /\ \A x \in Range(values) : FLe(x, r.value))
                        /\ r.stat = "min" =>
                              (r.value \in Range(values) /\ \A x \in Range(values) : FLe(r.value, x))
                        /\ r.stat = "range" =>
                              /\ r.value.k # "nan"
                              /\ FLe(Num(0), r.value)
                              /\ \E mx, mn \in rows :
                                    /\ mx.stat = "max" /\ mn.stat = "min"
                                    /\ r.value = FSub(mx.value, mn.value)

\* C11: in every reachable state no metric series holds a NaN, +Inf or -Inf value,
\* and no persisted summary statistic is one.
C11_SeriesFinite ==
    /\ \A key \in Keys : \A x \in Range(sm.metric_records[key]) : x.k = "num"
    /\ \A r \in db.metrics : r.value.k = "num"

\* C12: a metric name none of whose observations was a finite number has no
\* <name>_max, <name>_min or <name>_range row.
C12_NoCleanSampleNoRow ==
    \A key \in Keys :
        (\A x \in Range(sm.metric_records[key]) : x.k # "num") =>
            \A r \in db.metrics : r.name # key

\* C13: every persisted statistic of symmetry_shoulder_y, symmetry_elbow_y and
\* symmetry_knee_y carries the unit "pixels", every statistic of any other metric
\* carries "degrees", and the statistics of one metric carry the same unit.
C13_UnitFollowsName ==
    /\ \A r \in db.metrics :
          r.unit = IF r.name \in {"symmetry_shoulder_y", "symmetry_elbow_y", "symmetry_knee_y"}
                   THEN "pixels" ELSE "degrees"
    /\ \A r1, r2 \in db.metrics : r1.name = r2.name => r1.unit = r2.unit

\* a saved session with the three statistics of each of the nine metrics
C13_Witness ==
    /\ closes = 1 /\ faults = 0
    /\ \A key \in Keys \ {"knee_y_r"} : \A stat \in Stats :
          \E r \in db.metrics : r.name = key /\ r.stat = stat
    /\ \E r \in db.metrics : r.name = "symmetry_knee_y" /\ r.unit = "pixels"
    /\ \E r \in db.metrics : r.name = "symmetry_angle_arm" /\ r.unit = "degrees"

\* C14: after one saving close in which at most one add_metric call failed, every
\* metric with clean values has at least two of its three statistics persisted.
C14_StatisticsIndependent ==
    (closes = 1 /\ db.session /\ nFed = nRecv) =>
        \A key \in Keys :
            CleanVals(sm.metric_records[key]) # <<>> =>
                Cardinality({r \in db.metrics : r.name = key}) >= 2

\* C15: close_and_discard on a started session, whatever the state of its encoders
\* (not opened, broken, already closed, file missing), runs to its end: the rows of
\* the session are deleted and no variant that has a path keeps an output file.
C15_DiscardCompletes ==
    [][(started /\ \E stuck \in SUBSET Variants : CloseAndDiscard(stuck)) =>
            /\ db' = EmptyDb
            /\ closes' = closes + 1
            /\ \A v \in Variants :
                  sm.video_path[v] => enc'[v].state \in {"removed", "absent"}]_vars

\* a discarded session whose raw encoder never opened: the rows are gone and the
\* file of the legacy encoder, which received frames, is removed
C15_Witness ==
    /\ started /\ closes = 1 /\ db = EmptyDb
    /\ generate = {"raw", "legacy"}
    /\ sm.video_path["raw"] /\ enc["raw"].state = "absent"
    /\ sm.sequence_counter > 0
    /\ enc["legacy"].state = "removed"

\* C16: a start_session that finds too little disk space fails before anything is
\* opened or requested: no encoder, no storage row, no session id, no handle, and
\* the Processor is not started.
C16_NoSpaceStartsNothing ==
    [][RecvStarting({"no_space"}) =>
            /\ ~started'
            /\ sm'.session_id = NoId
            /\ \A v \in Variants : ~sm'.handle[v] /\ ~sm'.video_path[v]
            /\ enc' = enc
            /\ db' = db]_vars

\* the first callback found too little space; nothing was opened (the fps was set
\* before the test)
C16_Witness ==
    /\ session_mgr /\ ~started /\ nRecv = 1 /\ faults = 1
    /\ sm = [NewSessionManager EXCEPT !.fps = Num(TARGET_FPS)]
    /\ enc = NoEncoders /\ db = EmptyDb

\* C17: with enough disk space start_session does not raise: the callback that
\* starts the session leaves it started, with a session id.
C17_OnlyPreflightAborts ==
    [][RecvStarting({"ok", "no_row"}) => (started' /\ sm'.session_id # NoId)]_vars

\* C18: on the FFmpeg backend every generated variant of a started session owns a
\* writer, also when its ffmpeg process could not be spawned.
C18_SpawnFailureFallsBack ==
    (started /\ use_ffmpeg) => \A v \in generate : sm.handle[v]

\* C19: when the only failure of a started session is one variant's encoder that did
\* not open, the session has an id, every other generated variant has an open
\* encoder that received every frame written, and the disabled one received none.
C19_OnlyThatVariantDisabled ==
    (started /\ closes = 0 /\ faults = 1 /\ \E v \in generate : enc[v].state = "absent") =>
        /\ sm.session_id = NewId
        /\ sm.frames_written = sm.sequence_counter
        /\ \A u \in generate :
              \/ enc[u].state = "absent" /\ enc[u].frames = <<>>
              \/ /\ enc[u].state = "open"
                 /\ sm.handle[u]
                 /\ Len(enc[u].frames) = sm.sequence_counter

\* the raw encoder did not open; three frames were written to the legacy encoder
C19_Witness ==
    /\ started /\ closes = 0 /\ faults = 1
    /\ generate = {"raw", "legacy"}
    /\ enc["raw"].state = "absent"
    /\ enc["legacy"].state = "open"
    /\ Len(enc["legacy"].frames) = 3
    /\ sm.sequence_counter = 3

\* C20: a write_video_frames call in which appends fail does not raise (the counter
\* advances) and every open encoder whose append did not fail receives its frame.
C20_FailedAppendDropsOneFrame ==
    [][(started /\ ~paused /\ closes = 0 /\ nRecv' = nRecv + 1) =>
            /\ sm'.sequence_counter = sm.sequence_counter + 1
            /\ Cardinality({v \in generate : /\ sm.handle[v]
                                             /\ enc[v].state = "open"
                                             /\ enc'[v].frames = enc[v].frames})
                    <= faults' - faults]_vars

\* C22: the sequence counter is 0 after start_session and grows by exactly 1 with
\* every write_video_frames call of the open session, whether or not an append
\* failed; it never decreases while the session is open.
C22_CounterCountsWriteCalls ==
    [][(closes = 0 /\ closes' = 0 /\ started') =>
            /\ sm'.sequence_counter >= sm.sequence_counter
            /\ (nRecv' = nRecv + 1 /\ ~paused) =>
                    sm'.sequence_counter = (IF started THEN sm.sequence_counter ELSE 0) + 1]_vars

\* C26: whatever variants are generated, every non-paused frame with all landmarks
\* makes one record_frame_data call and feeds the metric series.
C26_CaptureWhateverVariants ==
    closes = 0 => Len(sm.metric_records["angle_arm_r"]) = nFed

\* C27: a discarding close makes no add_metric call, and when the discard is over
\* the storage holds no session row, no per-frame row and no metric row.
C27_DiscardPersistsNothing ==
    [][/\ (cpc = "persist" /\ clocal.discard) => db'.metrics = db.metrics
       /\ (cpc = "discard" /\ cpc' = "idle" /\ sm.session_id # NoId) => db' = EmptyDb]_vars

\* C30: the session row records an output path for a variant exactly when that
\* variant's encoder was opened; a variant that is not generated, or whose encoder
\* failed to open, has no path in the row.
C30_PathIffEncoderOpened ==
    db.session => \A v \in Variants : db.paths[v] <=> enc[v].state # "absent"

\* C28: after start_session has returned, the fps of the session is an integer of
\* at least 1, whatever the fps hint.
C28_FpsAtLeastOne ==
    started => (sm.fps.k = "num" /\ sm.fps.v >= 1)

\* C29: a record_frame_data call on a session manager without session id raises
\* and changes nothing: neither the metric series, the sampler's last sample time
\* and the counter of persisted frames, nor the storage.
C29_NoIdRecordsNothing ==
    [][(probe'.n = probe.n + 1 /\ probe'.call = "record_frame_data"
            /\ sm.session_id = NoId) =>
            /\ probe'.raised
            /\ sm' = sm
            /\ db' = db]_vars

\* record_frame_data was called after a start_session that raised
C29_Witness ==
    /\ probe.call = "record_frame_data"
    /\ probe.raised
    /\ session_mgr /\ ~started /\ faults = 1
    /\ sm.session_id = NoId
    /\ \A key \in Keys : sm.metric_records[key] = <<>>

\* C21: a saving close of a started session attempts the close of every open
\* encoder the session manager holds: each one is closed unless its own close
\* failed, whatever happened to the others, and the statistics of every metric
\* with a clean sample are persisted by this call, which returns.
C21_CloseAttemptsEveryEncoder ==
    [][(started /\ closes' = closes + 1 /\ db'.session) =>
            /\ \A v \in Variants :
                  (sm.handle[v] /\ enc[v].state = "open") =>
                        enc'[v].state \in {"closed", "broken"}
            /\ Cardinality({v \in Variants : enc[v].state = "open" /\ enc'[v].state = "broken"})
                    = faults' - faults
            /\ \A key \in Keys :
                  CleanVals(sm.metric_records[key]) # <<>> =>
                      \E r \in db'.metrics : r.name = key /\ r.call = closes']_vars

\* the close of the raw encoder failed; the legacy encoder, closed after it, is
\* closed and the statistics are persisted
C21_Witness ==
    /\ generate = {"raw", "legacy"} /\ started /\ closes = 1 /\ faults = 1
    /\ enc["raw"].state = "broken" /\ Len(enc["raw"].frames) = nRecv
    /\ enc["legacy"].state = "closed"
    /\ \E r \in db.metrics : r.name = "angle_arm_r" /\ r.call = 1

\* C24 as stated: calculate_angle returns null exactly when a point is absent, a
\* coordinate is NaN, a equals b or c equals b.
C24_NullExactlyOnDegenerate ==
    (probe.call = "calculate_angle" /\ probe.n > 0) =>
        (probe.result = None <=>
            \/ NoPoint \in {probe.a, probe.b, probe.c}
            \/ HasNaN(probe.a) \/ HasNaN(probe.b) \/ HasNaN(probe.c)
            \/ probe.a = probe.b
            \/ probe.c = probe.b)

\* C24: calculate_angle returns null whenever a point is absent, a coordinate is
\* NaN, a equals b or c equals b; for every other input whose coordinates are all
\* finite it returns a non-null value, an angle between 0 and 180 degrees.
C24_NullOnDegenerateValueOnFinite ==
    (probe.call = "calculate_angle" /\ probe.n > 0) =>
        LET pts == {probe.a, probe.b, probe.c}
            degenerate == \/ NoPoint \in pts
                          \/ \E p \in pts : HasNaN(p)
                          \/ probe.a = probe.b
                          \/ probe.c = probe.b
            finite == \A p \in pts \ {NoPoint} : p[1].k = "num" /\ p[2].k = "num"
        IN  /\ degenerate => probe.result = None
            /\ (~degenerate /\ finite) =>
                    /\ probe.result.k = "num"
                    /\ probe.result.v \in 0..180

\* the angle of a ray with itself: a lies between b and c's side, 0 degrees
C24_Witness ==
    /\ probe.call = "calculate_angle"
    /\ probe.a = <<Num(1), Num(1)>> /\ probe.b = <<Num(0), Num(0)>>
    /\ probe.c = probe.a
    /\ probe.result = Num(0)

\* C25: every symmetry metric of a frame is the absolute difference of its right
\* and left inputs: it is at least 0 and is 0 when they are equal; an angular
\* symmetry is null exactly when one of its two angles is null.
C25_SymmetryIsAbsoluteDifference ==
    (probe.call = "_extract_joint_data" /\ probe.n > 0 /\ probe.joint_data # NoJoints) =>
        LET j == probe.joint_data
            y(name) == probe.lm[name][2] * Frame.h
            Abs(n) == IF n < 0 THEN 0 - n ELSE n
            angular(sym, r, l) ==
                /\ j[sym] = None <=> (j[r] = None \/ j[l] = None)
                /\ j[sym] # None =>
                        /\ j[sym].k = "num"
                        /\ j[sym].v = Abs(j[r].v - j[l].v)
                        /\ j[sym].v >= 0
                        /\ j[r] = j[l] => j[sym].v = 0
            positional(sym, r, l) ==
                /\ j[sym] = Num(Abs(y(r) - y(l)))
                /\ j[sym].v >= 0
                /\ y(r) = y(l) => j[sym].v = 0
        IN  /\ angular("symmetry_angle_arm", "angle_arm_r", "angle_arm_l")
            /\ angular("symmetry_angle_leg", "angle_leg_r", "angle_leg_l")
            /\ positional("symmetry_shoulder_y", "RIGHT_SHOULDER", "LEFT_SHOULDER")
            /\ positional("symmetry_elbow_y", "RIGHT_ELBOW", "LEFT_ELBOW")
            /\ positional("symmetry_knee_y", "RIGHT_KNEE", "LEFT_KNEE")

\* a frame whose right arm is bent by 45 degrees and whose left arm by 90, with a
\* left leg whose knee and ankle coincide: the arm symmetry is 45, the leg symmetry
\* null
C25_Witness ==
    /\ probe.call = "_extract_joint_data"
    /\ probe.joint_data # NoJoints
    /\ probe.joint_data["angle_arm_r"] = Num(45)
    /\ probe.joint_data["angle_arm_l"] = Num(90)
    /\ probe.joint_data["symmetry_angle_arm"] = Num(45)
    /\ probe.joint_data["angle_leg_l"] = None
    /\ probe.joint_data["symmetry_angle_leg"] = None
    /\ probe.joint_data["symmetry_shoulder_y"] = Num(Frame.h)

\* C23: a frame in which one of the 16 landmarks is missing, or no pose is found,
\* gives no record_frame_data call: the metric series, the sampler, the counter of
\* persisted frames and the per-frame rows are as they were; in an open, unpaused
\* session the frame is still appended to the encoder of every generated variant
\* and the sequence counter advances by 1.
C23_IncompletePoseOnlyEncoded ==
    [][(nRecv' = nRecv + 1 /\ \E name \in Required : name \notin DOMAIN pose'.landmarks) =>
            /\ sm'.metric_records = sm.metric_records
            /\ sm'.last_sample_time = sm.last_sample_time
            /\ sm'.frames_recorded_to_db = sm.frames_recorded_to_db
            /\ db'.movement = db.movement
            /\ (~paused /\ closes = 0) =>
                    /\ sm'.sequence_counter = sm.sequence_counter + 1
                    /\ \A v \in generate :
                          enc'[v].frames = Append(enc[v].frames, sm.sequence_counter)]_vars

\* the second frame lacked a landmark: one frame fed the series and was persisted,
\* both frames are on the two encoders
C23_Witness ==
    /\ nRecv = 2 /\ closes = 0
    /\ "LEFT_FOOT_INDEX" \notin DOMAIN pose.landmarks
    /\ "LEFT_HEEL" \in DOMAIN pose.landmarks
    /\ Len(sm.metric_records["angle_arm_r"]) = 1
    /\ Len(db.movement) = 1
    /\ sm.sequence_counter = 2
    /\ \A v \in generate : enc[v].frames = <<0, 1>>
====
